---- MODULE Spec2Model ----
(***************************************************************************)
(* Model of jasmin/protocols/smpp/configs.py: the SMPPClientConfigMap key   *)
(* table, the SMPPClientConfig constructor (validation and defaulting of a  *)
(* keyword bag) and the SMPPClientServiceConfig loader.                     *)
(*                                                                          *)
(* Python values are records [t |-> <type name>, v |-> <payload>].  A str   *)
(* is a sequence of pieces whose concatenation is the text; the ids fed to  *)
(* the constructor are written one character per piece, because the id      *)
(* pattern inspects them character by character, and literals the code      *)
(* only compares or stores whole are written as one piece.  A float's       *)
(* payload is its value counted in halves (3 is 1.5).                       *)
(***************************************************************************)
EXTENDS Integers, Sequences, FiniteSets, TLC

VARIABLES kwargs, pc, self, err, configMap, lastKey, lastName, store, svc

vars == <<kwargs, pc, self, err, configMap, lastKey, lastName, store, svc>>

(***************************************************************************)
(* Bounds of the checked inputs.                                            *)
(***************************************************************************)
\* the largest number of keyword arguments, besides id, in a checked bag
MaxSupplied == 2
\* the longest id text that is enumerated
MaxIdLen == 27

(***************************************************************************)
(* Python values.                                                           *)
(***************************************************************************)
S(seq) == [t |-> "str", v |-> seq]
I(n) == [t |-> "int", v |-> n]
F(halves) == [t |-> "float", v |-> halves]
B(b) == [t |-> "bool", v |-> b]
None == [t |-> "NoneType", v |-> 0]
Enum(cls, member) == [t |-> cls, v |-> member]

\* isinstance(x, int): bool is a subclass of int
IsInstanceInt(x) == x.t \in {"int", "bool"}
IsInstanceFloat(x) == x.t = "float"
IsInstanceStr(x) == x.t = "str"

IsNumber(x) == x.t \in {"int", "bool", "float"}
\* the numeric value of a number, in halves
Halves(x) ==
  IF x.t = "float" THEN x.v
  ELSE IF x.t = "bool" THEN (IF x.v THEN 2 ELSE 0)
  ELSE 2 * x.v

\* Python's ==: numbers compare by value across int, bool and float
PyEq(a, b) ==
  IF IsNumber(a) /\ IsNumber(b) THEN Halves(a) = Halves(b)
  ELSE a.t = b.t /\ a.v = b.v

\* x in [l1, l2, ...]
PyIn(x, lst) == \E i \in 1..Len(lst) : PyEq(x, lst[i])

Digit(d) == <<"0", "1", "2", "3", "4", "5", "6", "7", "8", "9">>[d + 1]

RECURSIVE NatStr(_)
NatStr(n) == IF n < 10 THEN <<Digit(n)>> ELSE NatStr(n \div 10) \o <<Digit(n % 10)>>

IntStr(n) == IF n < 0 THEN <<"-">> \o NatStr(0 - n) ELSE NatStr(n)

\* str(x), as a sequence of pieces
Str(x) ==
  CASE x.t = "str" -> x.v
    [] x.t = "int" -> IntStr(x.v)
    [] x.t = "bool" -> (IF x.v THEN <<"T", "r", "u", "e">> ELSE <<"F", "a", "l", "s", "e">>)
    [] x.t = "float" ->
         (IF x.v < 0 THEN <<"-">> ELSE <<>>)
           \o NatStr((IF x.v < 0 THEN 0 - x.v ELSE x.v) \div 2)
           \o <<".">>
           \o (IF x.v % 2 = 0 THEN <<"0">> ELSE <<"5">>)
    [] x.t = "NoneType" -> <<"N", "o", "n", "e">>
    [] OTHER -> <<x.t, ".", x.v>>

\* kwargs.get(key, default)
KwGet(kw, key, default) == IF key \in DOMAIN kw THEN kw[key] ELSE default

(***************************************************************************)
(* SMPPClientConfigMap                                                      *)
(***************************************************************************)
\* a table in which two of the timer keys name each other's attribute
SMPPClientConfigMapSwapped ==
  ("cid" :> "id") @@ ("bind_to" :> "enquireLinkTimerSecs")
  @@ ("elink_interval" :> "sessionInitTimerSecs")

SMPPClientConfigMap ==
  ("cid" :> "id") @@ ("host" :> "host") @@ ("port" :> "port")
  @@ ("username" :> "username") @@ ("password" :> "password")
  @@ ("systype" :> "systemType") @@ ("logfile" :> "log_file")
  @@ ("loglevel" :> "log_level") @@ ("bind_to" :> "sessionInitTimerSecs")
  @@ ("elink_interval" :> "enquireLinkTimerSecs")
  @@ ("trx_to" :> "inactivityTimerSecs") @@ ("res_to" :> "responseTimerSecs")
  @@ ("con_loss_retry" :> "reconnectOnConnectionLoss")
  @@ ("con_fail_retry" :> "reconnectOnConnectionFailure")
  @@ ("con_loss_delay" :> "reconnectOnConnectionLossDelay")
  @@ ("con_fail_delay" :> "reconnectOnConnectionFailureDelay")
  @@ ("pdu_red_to" :> "pduReadTimerSecs") @@ ("bind" :> "bindOperation")
  @@ ("bind_ton" :> "bind_addr_ton") @@ ("bind_npi" :> "bind_addr_npi")
  @@ ("src_ton" :> "source_addr_ton") @@ ("src_npi" :> "source_addr_npi")
  @@ ("dst_ton" :> "dest_addr_ton") @@ ("dst_npi" :> "dest_addr_npi")
  @@ ("addr_range" :> "address_range") @@ ("src_addr" :> "source_addr")
  @@ ("esm_class" :> "esm_class") @@ ("proto_id" :> "protocol_id")
  @@ ("priority" :> "priority_flag") @@ ("validity" :> "validity_period")
  @@ ("dlr" :> "registered_delivery") @@ ("ripf" :> "replace_if_present_flag")
  @@ ("def_msg_id" :> "sm_default_msg_id") @@ ("coding" :> "data_coding")
  @@ ("requeue_delay" :> "requeue_delay")
  @@ ("submit_throughput" :> "submit_sm_throughput")
  @@ ("dlr_expiry" :> "dlr_expiry")

NotRecognized == "<not recognized>"

\* the lookup of an external key in the table
Translate(map, key) == IF key \in DOMAIN map THEN map[key] ELSE NotRecognized

(***************************************************************************)
(* SMPPClientConfig.__init__: the identifier gate                           *)
(***************************************************************************)
IdChars ==
  {"A", "B", "C", "D", "E", "F", "G", "H", "I", "J", "K", "L", "M",
   "N", "O", "P", "Q", "R", "S", "T", "U", "V", "W", "X", "Y", "Z",
   "a", "b", "c", "d", "e", "f", "g", "h", "i", "j", "k", "l", "m",
   "n", "o", "p", "q", "r", "s", "t", "u", "v", "w", "x", "y", "z",
   "0", "1", "2", "3", "4", "5", "6", "7", "8", "9", "_", "-"}

IdMinLen == 3
IdMaxLen == 25

\* re.compile(r'^[A-Za-z0-9_-]{3,25}$').match(s) is not None.  Without
\* re.MULTILINE, $ matches at the end of the text and also just before a
\* line break that ends the text.
IdCheckMatch(s) ==
  \E n \in IdMinLen..IdMaxLen :
    /\ n <= Len(s)
    /\ \A i \in 1..n : s[i] \in IdChars
    /\ \/ n = Len(s)
       \/ n + 1 = Len(s) /\ s[n + 1] = "\n"

\* an identifier gate that only notices an id given as None
IdUndefinedOnlyNone(kw) == "id" \in DOMAIN kw /\ PyEq(kw["id"], None)

\* kwargs.get('id', None) == None
IdUndefined(kw) == PyEq(KwGet(kw, "id", None), None)

IdInvalid(kw) == ~IdCheckMatch(Str(KwGet(kw, "id", None)))

(***************************************************************************)
(* SMPPClientConfig.__init__: the attributes, in the order of the source    *)
(***************************************************************************)
\* a default path whose placeholder is never filled in
LogFileDefaultUnfilled(id) == S(<<"/var/log/jasmin/default-", "%s", ".log">>)

LogFileDefault(id) == S(<<"/var/log/jasmin/default-">> \o id.v \o <<".log">>)

\* the second argument of each kwargs.get; obj is the object built so far
Default(attr, obj) ==
  CASE attr = "host" -> S(<<"127.0.0.1">>)
    [] attr = "port" -> I(2775)
    [] attr = "username" -> S(<<"smppclient">>)
    [] attr = "password" -> S(<<"password">>)
    [] attr = "systemType" -> S(<<>>)
    [] attr = "log_file" -> LogFileDefault(obj["id"])
    [] attr = "log_level" -> I(20)
    [] attr = "log_format" -> S(<<"%(asctime)s %(levelname)-8s %(process)d %(message)s">>)
    [] attr = "log_date_format" -> S(<<"%Y-%m-%d %H:%M:%S">>)
    [] attr = "sessionInitTimerSecs" -> I(30)
    [] attr = "enquireLinkTimerSecs" -> I(10)
    [] attr = "inactivityTimerSecs" -> I(300)
    [] attr = "responseTimerSecs" -> I(60)
    [] attr = "reconnectOnConnectionLoss" -> B(TRUE)
    [] attr = "reconnectOnConnectionFailure" -> B(TRUE)
    [] attr = "reconnectOnConnectionLossDelay" -> I(10)
    [] attr = "reconnectOnConnectionFailureDelay" -> I(10)
    [] attr = "pduReadTimerSecs" -> I(10)
    [] attr = "useSSL" -> B(FALSE)
    [] attr = "SSLCertificateFile" -> None
    [] attr = "bindOperation" -> S(<<"transceiver">>)
    [] attr = "service_type" -> None
    [] attr = "bind_addr_ton" -> Enum("AddrTon", "UNKNOWN")
    [] attr = "bind_addr_npi" -> Enum("AddrNpi", "ISDN")
    [] attr = "source_addr_ton" -> Enum("AddrTon", "NATIONAL")
    [] attr = "source_addr_npi" -> Enum("AddrNpi", "ISDN")
    [] attr = "dest_addr_ton" -> Enum("AddrTon", "INTERNATIONAL")
    [] attr = "dest_addr_npi" -> Enum("AddrNpi", "ISDN")
    [] attr = "address_range" -> None
    [] attr = "source_addr" -> None
    [] attr = "esm_class" -> Enum("EsmClass", "STORE_AND_FORWARD,DEFAULT")
    [] attr = "protocol_id" -> None
    [] attr = "priority_flag" -> Enum("PriorityFlag", "LEVEL_0")
    [] attr = "schedule_delivery_time" -> None
    [] attr = "validity_period" -> None
    [] attr = "registered_delivery" ->
         Enum("RegisteredDelivery", "NO_SMSC_DELIVERY_RECEIPT_REQUESTED")
    [] attr = "replace_if_present_flag" -> Enum("ReplaceIfPresentFlag", "DO_NOT_REPLACE")
    [] attr = "sm_default_msg_id" -> I(0)
    [] attr = "data_coding" -> I(0)
    [] attr = "requeue_delay" -> I(120)
    [] attr = "submit_sm_throughput" -> I(1)
    [] attr = "dlr_expiry" -> I(86400)

Get(attr, key, chk) == [op |-> "get", attr |-> attr, key |-> key, chk |-> chk]
Copy(attr, from) == [op |-> "copy", attr |-> attr, key |-> from, chk |-> "none"]

\* the statements of __init__ after self.id is set, in source order: each
\* get reads kwargs[key] (or the default) into self.attr and then applies
\* the check written right after it; each copy assigns one attribute to another
Steps ==
  << Get("host", "host", "str"),
     Get("port", "port", "int"),
     Get("username", "username", "none"),
     Get("password", "password", "none"),
     Get("systemType", "systemType", "none"),
     Get("log_file", "log_file", "none"),
     Get("log_level", "log_level", "none"),
     Get("log_format", "log_format", "none"),
     Get("log_date_format", "log_dateformat", "none"),
     Get("sessionInitTimerSecs", "sessionInitTimerSecs", "number"),
     Get("enquireLinkTimerSecs", "enquireLinkTimerSecs", "number"),
     Get("inactivityTimerSecs", "inactivityTimerSecs", "number"),
     Get("responseTimerSecs", "responseTimerSecs", "number"),
     Get("reconnectOnConnectionLoss", "reconnectOnConnectionLoss", "none"),
     Get("reconnectOnConnectionFailure", "reconnectOnConnectionFailure", "none"),
     Get("reconnectOnConnectionLossDelay", "reconnectOnConnectionLossDelay", "number"),
     Get("reconnectOnConnectionFailureDelay", "reconnectOnConnectionFailureDelay", "number"),
     Get("pduReadTimerSecs", "pduReadTimerSecs", "number"),
     Get("useSSL", "useSSL", "none"),
     Get("SSLCertificateFile", "SSLCertificateFile", "none"),
     Get("bindOperation", "bindOperation", "bindOperation"),
     Get("service_type", "service_type", "none"),
     Get("bind_addr_ton", "bind_addr_ton", "none"),
     Get("bind_addr_npi", "bind_addr_npi", "none"),
     Get("source_addr_ton", "source_addr_ton", "none"),
     Get("source_addr_npi", "source_addr_npi", "none"),
     Get("dest_addr_ton", "dest_addr_ton", "none"),
     Get("dest_addr_npi", "dest_addr_npi", "none"),
     Get("address_range", "address_range", "none"),
     Get("source_addr", "source_addr", "none"),
     Get("esm_class", "esm_class", "none"),
     Get("protocol_id", "protocol_id", "none"),
     Get("priority_flag", "priority_flag", "none"),
     Get("schedule_delivery_time", "schedule_delivery_time", "none"),
     Get("validity_period", "validity_period", "none"),
     Get("registered_delivery", "registered_delivery", "none"),
     Get("replace_if_present_flag", "replace_if_present_flag", "none"),
     Get("sm_default_msg_id", "sm_default_msg_id", "none"),
     Get("data_coding", "data_coding", "data_coding"),
     Copy("addressTon", "bind_addr_ton"),
     Copy("addressNpi", "bind_addr_npi"),
     Copy("addressRange", "address_range"),
     Get("requeue_delay", "requeue_delay", "number"),
     Get("submit_sm_throughput", "submit_sm_throughput", "number"),
     Get("dlr_expiry", "dlr_expiry", "number") >>

BindOperations == <<S(<<"transceiver">>), S(<<"transmitter">>), S(<<"receiver">>)>>

\* an allow-list written as the whole range 0..14
DataCodingsRange ==
  <<I(0), I(1), I(2), I(3), I(4), I(5), I(6), I(7), I(8), I(9), I(10), I(11),
    I(12), I(13), I(14)>>

DataCodings ==
  <<I(0), I(1), I(2), I(3), I(4), I(5), I(6), I(7), I(8), I(9), I(10), I(13), I(14)>>

\* the condition under which the statement after a get does not raise
CheckPasses(chk, val) ==
  CASE chk = "none" -> TRUE
    [] chk = "str" -> IsInstanceStr(val)
    [] chk = "int" -> IsInstanceInt(val)
    [] chk = "number" -> IsInstanceInt(val) \/ IsInstanceFloat(val)
    [] chk = "bindOperation" -> PyIn(val, BindOperations)
    [] chk = "data_coding" -> PyIn(val, DataCodings)

NoError == [kind |-> "", field |-> "", detail |-> None]
NoObject == <<>>

\* the exception a failed check raises: its class, the attribute its
\* message names, and what the message says of it (the expected type, or
\* the rejected value)
Raised(chk, attr, val) ==
  CASE chk = "str" ->
         [kind |-> "TypeMismatch", field |-> attr, detail |-> S(<<"must be a string">>)]
    [] chk = "int" ->
         [kind |-> "TypeMismatch", field |-> attr, detail |-> S(<<"must be an integer">>)]
    [] chk = "number" ->
         [kind |-> "TypeMismatch", field |-> attr,
          detail |-> S(<<"must be an integer or float">>)]
    [] chk \in {"bindOperation", "data_coding"} ->
         [kind |-> "UnknownValue", field |-> attr, detail |-> val]

\* addressTon copied from the numbering plan instead of the type of number
CopySourceCrossed(attr, from) == IF attr = "addressTon" THEN "bind_addr_npi" ELSE from

\* the source attribute of each compatibility attribute
CopySource(attr, from) == from

RECURSIVE RunSteps(_, _, _)
RunSteps(i, kw, obj) ==
  IF i > Len(Steps) THEN [ok |-> TRUE, obj |-> obj, err |-> NoError]
  ELSE LET st == Steps[i]
           val == IF st.op = "copy" THEN obj[CopySource(st.attr, st.key)]
                  ELSE KwGet(kw, st.key, Default(st.attr, obj))
       IN IF CheckPasses(st.chk, val)
          THEN RunSteps(i + 1, kw, (st.attr :> val) @@ obj)
          ELSE [ok |-> FALSE, obj |-> NoObject, err |-> Raised(st.chk, st.attr, val)]

\* SMPPClientConfig(**kw): the object, or the exception raised
SMPPClientConfig(kw) ==
  IF IdUndefined(kw)
  THEN [ok |-> FALSE, obj |-> NoObject,
        err |-> [kind |-> "ConfigUndefinedIdError", field |-> "id", detail |-> None]]
  ELSE IF IdInvalid(kw)
  THEN [ok |-> FALSE, obj |-> NoObject,
        err |-> [kind |-> "ConfigInvalidIdError", field |-> "id", detail |-> None]]
  ELSE RunSteps(1, kw, ("id" :> S(Str(KwGet(kw, "id", None)))))

(***************************************************************************)
(* SMPPClientServiceConfig.__init__                                         *)
(***************************************************************************)
\* ConfigFile._get(section, option, default): the stored text, or the
\* default when the store has no such section or no such option in it
ConfigGet(st, section, option, default) ==
  IF <<section, option>> \in DOMAIN st THEN st[<<section, option>>] ELSE default

\* logging.getLevelName(level) for a level given by name
GetLevelName(level) ==
  CASE level = S(<<"CRITICAL">>) -> I(50)
    [] level = S(<<"ERROR">>) -> I(40)
    [] level = S(<<"WARNING">>) -> I(30)
    [] level = S(<<"WARN">>) -> I(30)
    [] level = S(<<"INFO">>) -> I(20)
    [] level = S(<<"DEBUG">>) -> I(10)
    [] level = S(<<"NOTSET">>) -> I(0)
    [] OTHER -> S(<<"Level ">> \o Str(level))

SvcLogFileDefault == S(<<"/var/log/jasmin/service-smppclient.log">>)
SvcLogFormatDefault == S(<<"%(asctime)s %(levelname)-8s %(process)d %(message)s">>)
SvcLogDateFormatDefault == S(<<"%Y-%m-%d %H:%M:%S">>)

\* the section each attribute is read from
SvcSection(option) ==
  IF option = "log_level" THEN "service-smppclient" ELSE "services-smppclient"

SMPPClientServiceConfig(st) ==
  ("log_level" :>
     GetLevelName(ConfigGet(st, SvcSection("log_level"), "log_level", S(<<"INFO">>))))
  @@ ("log_file" :>
        ConfigGet(st, SvcSection("log_file"), "log_file", SvcLogFileDefault))
  @@ ("log_format" :>
        ConfigGet(st, SvcSection("log_format"), "log_format", SvcLogFormatDefault))
  @@ ("log_date_format" :>
        ConfigGet(st, SvcSection("log_date_format"), "log_date_format",
                  SvcLogDateFormatDefault))

(***************************************************************************)
(* The checked inputs.                                                      *)
(***************************************************************************)
NumericKeys ==
  {"port", "sessionInitTimerSecs", "enquireLinkTimerSecs", "inactivityTimerSecs",
   "responseTimerSecs", "pduReadTimerSecs", "reconnectOnConnectionLossDelay",
   "reconnectOnConnectionFailureDelay", "requeue_delay", "submit_sm_throughput",
   "dlr_expiry"}
TextKeys == {"host", "username", "password", "systemType"}
BooleanKeys == {"reconnectOnConnectionLoss", "reconnectOnConnectionFailure", "useSSL"}

\* the keyword names tried: every name __init__ checks, names it stores
\* unchecked, the attribute name log_date_format (which it does not read)
\* and a name it does not know
ArgKeys ==
  << "host", "port", "username", "password", "systemType", "log_file",
     "log_dateformat", "log_date_format", "sessionInitTimerSecs",
     "enquireLinkTimerSecs", "inactivityTimerSecs", "responseTimerSecs",
     "reconnectOnConnectionLoss", "reconnectOnConnectionFailure",
     "reconnectOnConnectionLossDelay", "reconnectOnConnectionFailureDelay",
     "pduReadTimerSecs", "useSSL", "bindOperation", "service_type",
     "bind_addr_ton", "bind_addr_npi", "address_range", "esm_class",
     "data_coding", "requeue_delay", "submit_sm_throughput", "dlr_expiry", "foo" >>

\* the values tried for each keyword
ArgValues(key) ==
  CASE key = "port" -> {I(5), F(3), S(<<"abc">>), B(TRUE)}
    [] key = "sessionInitTimerSecs" -> {F(3), S(<<"abc">>), B(TRUE)}
    [] key \in NumericKeys -> {S(<<"abc">>), B(TRUE)}
    [] key \in {"host", "username"} -> {S(<<"smsc">>), I(5)}
    [] key \in TextKeys -> {I(5)}
    [] key = "useSSL" -> {B(TRUE), S(<<"yes">>)}
    [] key \in BooleanKeys -> {S(<<"yes">>)}
    [] key = "log_file" -> {S(<<"/tmp/gw.log">>), None}
    [] key = "bindOperation" -> {S(<<"transmitter">>), S(<<"x">>), I(5)}
    [] key = "data_coding" -> {I(13), I(11), F(2), B(TRUE), S(<<"abc">>)}
    [] key = "bind_addr_ton" -> {Enum("AddrTon", "NATIONAL"), I(1)}
    [] key = "bind_addr_npi" -> {Enum("AddrNpi", "TELEX")}
    [] key = "address_range" -> {S(<<"^1234">>)}
    [] OTHER -> {S(<<"value">>)}

EmptyBag == <<>>

\* the bags over ArgKeys[i..] with at most k keywords
RECURSIVE Bags(_, _)
Bags(i, k) ==
  IF i > Len(ArgKeys) \/ k = 0 THEN {EmptyBag}
  ELSE Bags(i + 1, k)
         \cup {(ArgKeys[i] :> v) @@ b : v \in ArgValues(ArgKeys[i]), b \in Bags(i + 1, k - 1)}

Gw1 == S(<<"g", "w", "1">>)

\* the ids tried together with other keywords
IdChoices == {Gw1, I(123), S(<<"a", "b">>)}

WithId(bags, ids) == {("id" :> v) @@ b : v \in ids, b \in bags}

BuildInputs == LET bags == Bags(1, MaxSupplied) IN bags \cup WithId(bags, IdChoices)

\* characters put into the enumerated id texts
ProbeChars == {"a", "Z", "0", "_", "-", " ", "\n", ".", "@"}

\* n times "a", with the character at position p (if any) replaced by c
IdText(n, p, c) == [i \in 1..n |-> IF i = p THEN c ELSE "a"]

IdTexts == {IdText(n, p, c) : n \in 0..MaxIdLen, p \in 0..MaxIdLen, c \in ProbeChars}

IdValues ==
  {S(s) : s \in IdTexts} \cup {I(123), I(12), I(0 - 12), B(TRUE), F(3), None}

IdInputs == WithId({EmptyBag}, IdValues)

ExternalKeys == DOMAIN SMPPClientConfigMap \cup {"foo", "id", "CID", "sessionInitTimerSecs"}

Sections == {"service-smppclient", "services-smppclient"}
Options == {"log_level", "log_file", "log_format", "log_date_format"}
\* the texts tried for each option
StoredValues(option) ==
  CASE option = "log_level" -> {S(<<"DEBUG">>), S(<<"VERBOSE">>)}
    [] option = "log_file" -> {S(<<"/tmp/svc.log">>)}
    [] option = "log_format" -> {S(<<"%(message)s">>)}
    [] option = "log_date_format" -> {S(<<"%H:%M">>)}
AllStoredValues == UNION {StoredValues(o) : o \in Options}
Stores ==
  {st \in UNION {[D -> AllStoredValues] : D \in SUBSET (Sections \X Options)} :
     \A p \in DOMAIN st : st[p] \in StoredValues(p[2])}

(***************************************************************************)
(* The state machine.                                                       *)
(***************************************************************************)
Idle(kws, stores) ==
  /\ kwargs \in kws
  /\ pc = "start"
  /\ self = NoObject
  /\ err = NoError
  /\ configMap = SMPPClientConfigMap
  /\ lastKey = ""
  /\ lastName = ""
  /\ store \in stores
  /\ svc = NoObject

\* SMPPClientConfig(**kwargs)
Construct ==
  /\ pc = "start"
  /\ LET r == SMPPClientConfig(kwargs)
     IN /\ pc' = IF r.ok THEN "built" ELSE "failed"
        /\ self' = r.obj
        /\ err' = r.err
  /\ UNCHANGED <<kwargs, configMap, lastKey, lastName, store, svc>>

\* a lookup of an external key in SMPPClientConfigMap
TranslateKey ==
  /\ \E k \in ExternalKeys :
       /\ lastKey' = k
       /\ lastName' = Translate(configMap, k)
  /\ UNCHANGED <<kwargs, pc, self, err, configMap, store, svc>>

\* SMPPClientServiceConfig(config_file)
LoadService ==
  /\ svc = NoObject
  /\ svc' = SMPPClientServiceConfig(store)
  /\ UNCHANGED <<kwargs, pc, self, err, configMap, lastKey, lastName, store>>

Init == Idle(BuildInputs, {EmptyBag})
Next == Construct
Spec == Init /\ [][Next]_vars

InitId == Idle(IdInputs, {EmptyBag})
SpecId == InitId /\ [][Next]_vars

InitMap == Idle(WithId(Bags(1, 1), {Gw1}), {EmptyBag})
NextMap == TranslateKey \/ Construct
SpecMap == InitMap /\ [][NextMap]_vars

InitSvc == Idle({EmptyBag}, Stores)
NextSvc == LoadService
SpecSvc == InitSvc /\ [][NextSvc]_vars

(***************************************************************************)
(* Vocabulary of the properties.                                            *)
(***************************************************************************)
Done == pc # "start"
Built == pc = "built"
Failed == pc = "failed"
Has(key) == key \in DOMAIN kwargs
SameValue(a, b) == a.t = b.t /\ a.v = b.v

\* a text of 3 to 25 characters, each a letter, a digit, _ or -
WellFormedId(s) ==
  /\ Len(s) >= 3
  /\ Len(s) <= 25
  /\ \A i \in 1..Len(s) : s[i] \in IdChars

HasValidId == Has("id") /\ kwargs["id"].t # "NoneType" /\ WellFormedId(Str(kwargs["id"]))

\* the declared semantic type of each typed field
DeclaredTypes(key) ==
  CASE key = "port" -> {"int"}
    [] key \in NumericKeys -> {"int", "float"}
    [] key \in TextKeys -> {"str"}
    [] key \in BooleanKeys -> {"bool"}
    [] OTHER -> {}
TypedKeys == NumericKeys \cup TextKeys \cup BooleanKeys
WellTyped(key) == Has(key) => kwargs[key].t \in DeclaredTypes(key)
OnlyArgument(key) == DOMAIN kwargs = {"id", key}

BindOperationNames == {<<"transceiver">>, <<"transmitter">>, <<"receiver">>}
DataCodingValues == {0, 1, 2, 3, 4, 5, 6, 7, 8, 9, 10, 13, 14}
InBindOperations(x) == x.t = "str" /\ x.v \in BindOperationNames
InDataCodings(x) == IsNumber(x) /\ \E n \in DataCodingValues : Halves(x) = 2 * n
BadBindOperation == Has("bindOperation") /\ ~InBindOperations(kwargs["bindOperation"])
BadDataCoding == Has("data_coding") /\ ~InDataCodings(kwargs["data_coding"])
OtherwiseValid ==
  HasValidId /\ \A key \in TypedKeys : WellTyped(key)

(***************************************************************************)
(* C1                                                                       *)
(***************************************************************************)
\* C1: a bag without id fails with ConfigUndefinedIdError whatever else it
\* holds, never with TypeMismatch or UnknownValue.
C1_MissingIdFirst ==
  (Done /\ ~Has("id")) => (Failed /\ err.kind = "ConfigUndefinedIdError")

C1_Witness ==
  /\ Failed
  /\ ~Has("id")
  /\ Has("port") /\ kwargs["port"].t = "str"
  /\ Has("bindOperation") /\ BadBindOperation

(***************************************************************************)
(* C2                                                                       *)
(***************************************************************************)
\* C2: with only id supplied, the build succeeds exactly when the text of
\* id is 3 to 25 characters of [A-Za-z0-9_-]; any other supplied id fails
\* with ConfigInvalidIdError, and a built id is such a text.
C2_IdSyntax ==
  (Done /\ DOMAIN kwargs = {"id"} /\ kwargs["id"].t # "NoneType") =>
    IF WellFormedId(Str(kwargs["id"]))
    THEN Built /\ self["id"].t = "str" /\ WellFormedId(self["id"].v)
    ELSE Failed /\ err.kind = "ConfigInvalidIdError"

(***************************************************************************)
(* C3                                                                       *)
(***************************************************************************)
\* C3: with a valid id, a text or boolean value for a declared numeric
\* field fails with TypeMismatch (naming the field when it is the only
\* other argument), so a built configuration holds an integer or a real
\* (an integer, for port) in each of them.
C3_NumericFieldsTyped ==
  Done =>
    \A f \in NumericKeys :
      /\ (HasValidId /\ Has(f) /\ kwargs[f].t \in {"str", "bool"}) =>
           /\ Failed
           /\ err.kind = "TypeMismatch"
           /\ OnlyArgument(f) => err.field = f
      /\ Built => self[f].t \in DeclaredTypes(f)

C6_LogFile ==
  Built =>
    /\ Has("log_file") => SameValue(self["log_file"], kwargs["log_file"])
    /\ ~Has("log_file") =>
         /\ self["log_file"].t = "str"
         /\ self["log_file"].v
              = <<"/var/log/jasmin/default-">> \o Str(kwargs["id"]) \o <<".log">>
         /\ kwargs["id"] = Gw1 =>
              self["log_file"].v = <<"/var/log/jasmin/default-", "g", "w", "1", ".log">>
         /\ kwargs["id"].t = "int" =>
              self["log_file"].v = <<"/var/log/jasmin/default-", "1", "2", "3", ".log">>

C6_Witness ==
  /\ Built
  /\ ~Has("log_file")
  /\ kwargs["id"].t = "int"
  /\ Has("port")

C8_TextAndBooleanFieldsTyped ==
  Done =>
    \A f \in TextKeys \cup BooleanKeys :
      /\ (HasValidId /\ ~WellTyped(f)) =>
           /\ Failed
           /\ err.kind = "TypeMismatch"
           /\ OnlyArgument(f) => err.field = f
      /\ Built => self[f].t \in DeclaredTypes(f)

(***************************************************************************)
(* C9                                                                       *)
(***************************************************************************)
\* C9: with a valid id, a bag holding both a text value for a numeric field
\* (requeue_delay, submit_sm_throughput and dlr_expiry included) or a
\* non-text host, and an out-of-domain bindOperation or data_coding, fails
\* with TypeMismatch and not with UnknownValue.
C9_TypesBeforeDomains ==
  ( /\ Done
    /\ HasValidId
    /\ \/ \E f \in NumericKeys : Has(f) /\ kwargs[f].t = "str"
       \/ Has("host") /\ kwargs["host"].t # "str"
    /\ BadBindOperation \/ BadDataCoding )
  => (Failed /\ err.kind = "TypeMismatch")

(***************************************************************************)
(* C10                                                                      *)
(***************************************************************************)
\* what a load from section sec alone would give for an option
FromSection(sec, option) ==
  CASE option = "log_level" ->
         GetLevelName(ConfigGet(store, sec, option, S(<<"INFO">>)))
    [] option = "log_file" -> ConfigGet(store, sec, option, SvcLogFileDefault)
    [] option = "log_format" -> ConfigGet(store, sec, option, SvcLogFormatDefault)
    [] option = "log_date_format" ->
         ConfigGet(store, sec, option, SvcLogDateFormatDefault)

\* C10: the four attributes of a loaded service configuration all come from
\* one and the same section of the store: each is the value stored there
\* (log_level converted to its number) or the literal default.
C10_OneSection ==
  DOMAIN svc # {} =>
    \E sec \in Sections : \A o \in Options : SameValue(svc[o], FromSection(sec, o))

====
